---- MODULE Spec2Model ----
(***************************************************************************)
(* Model of the iterative-stability crate (src/iterative-stability/src/     *)
(* lib.rs): the iteration engine `is_stable`, the space mapper             *)
(* (`SpaceParams::new`, `from_screen_point_to_cartesian`), the per-pixel   *)
(* generators and the batch offload path.                                  *)
(*                                                                         *)
(* Numbers.  The engine's value type `Complex<F>` is modelled over a       *)
(* binary floating-point format with round-to-nearest-even, infinities and *)
(* NaN, the exponent range of binary64 and a significand of Precision bits.*)
(* The `Vec2` arithmetic of the space mapper is modelled over exact        *)
(* rationals <<numerator, denominator>>.                                   *)
(***************************************************************************)
EXTENDS Integers, Sequences, FiniteSets, TLC

(***************************************************************************)
(* Bounds of the model.                                                    *)
(***************************************************************************)
Precision == 11        \* significand bits of the modelled float format
USize == 3             \* size of the abstract value domain of the engine
MaxBudget == 3         \* largest max_iterations tried on the abstract domain

(***************************************************************************)
(* Exact rationals: <<n, d>> with d > 0 and gcd(n, d) = 1.                 *)
(***************************************************************************)
Abs(x) == IF x < 0 THEN -x ELSE x

RECURSIVE Gcd(_, _)
Gcd(a, b) == IF b = 0 THEN a ELSE Gcd(b, a % b)

Rat(n, d) ==
    LET g == Gcd(Abs(n), Abs(d))
        s == IF d < 0 THEN -1 ELSE 1
    IN  <<(s * n) \div g, (s * d) \div g>>

RInt(k) == <<k, 1>>
RAdd(a, b) == Rat(a[1] * b[2] + b[1] * a[2], a[2] * b[2])
RSub(a, b) == Rat(a[1] * b[2] - b[1] * a[2], a[2] * b[2])
RMul(a, b) == Rat(a[1] * b[1], a[2] * b[2])
RDiv(a, b) == Rat(a[1] * b[2], a[2] * b[1])
RAbs(a) == <<Abs(a[1]), a[2]>>
RLt(a, b) == a[1] * b[2] < b[1] * a[2]
RLe(a, b) == a[1] * b[2] <= b[1] * a[2]

(***************************************************************************)
(* The float format.  A finite value is s * m * 2^e with 0 <= m <          *)
(* 2^Precision and EMinSub <= e <= EMaxPow - Precision; it is canonical    *)
(* when m >= 2^(Precision-1) or e = EMinSub (subnormal) or m = 0.          *)
(***************************************************************************)
EMaxPow == 1024        \* finite values are below 2^1024 (binary64)
EMinSub == -1074       \* the smallest positive value is 2^-1074 (binary64)

RECURSIVE BitLen(_)
BitLen(m) == IF m = 0 THEN 0 ELSE 1 + BitLen(m \div 2)

FZero == [k |-> "fin", s |-> 1, m |-> 0, e |-> 0]
FNaN == [k |-> "nan", s |-> 1, m |-> 0, e |-> 0]
FInf(s) == [k |-> "inf", s |-> s, m |-> 0, e |-> 0]
Max(a, b) == IF a >= b THEN a ELSE b
Min(a, b) == IF a <= b THEN a ELSE b
Sgn(a) == IF a < 0 THEN -1 ELSE 1

\* s * m * 2^e with m of at most Precision bits: overflow to infinity
FPack(s, m, e) ==
    IF m = 0 THEN FZero
    ELSE IF m = 2 ^ Precision THEN
        IF e + 1 > EMaxPow - Precision THEN FInf(s)
        ELSE [k |-> "fin", s |-> s, m |-> m \div 2, e |-> e + 1]
    ELSE IF e > EMaxPow - Precision THEN FInf(s)
    ELSE [k |-> "fin", s |-> s, m |-> m, e |-> e]

\* q, r: quotient and remainder of the significand by 2 * half
FRoundUp(s, q, r, half, sticky, e1) ==
    IF r > half \/ (r = half /\ (sticky \/ q % 2 = 1))
    THEN FPack(s, q + 1, e1)
    ELSE FPack(s, q, e1)

\* e1: the exponent of the result before rounding, L: the bits of m
FRoundAt(s, m, e, sticky, L, e1) ==
    IF e1 <= e THEN FPack(s, m * 2 ^ (e - e1), e1)
    ELSE IF e1 - e > L + 1 THEN FZero
    ELSE FRoundUp(s, m \div 2 ^ (e1 - e), m % 2 ^ (e1 - e),
                  2 ^ (e1 - e - 1), sticky, e1)

FRoundLen(s, m, e, sticky, L) ==
    FRoundAt(s, m, e, sticky, L, Max(e + L - Precision, EMinSub))

\* Round s * (m + sticky) * 2^e to the format, ties to even.  A sticky
\* remainder is only passed with m of at least Precision + 2 bits.
FRound(s, m, e, sticky) ==
    IF m = 0 THEN FZero ELSE FRoundLen(s, m, e, sticky, BitLen(m))

FFromInt(k) == FRound(Sgn(k), Abs(k), 0, FALSE)

FNeg(x) == IF x.k = "nan" \/ (x.k = "fin" /\ x.m = 0) THEN x
           ELSE [x EXCEPT !.s = -x.s]

FMul(x, y) ==
    IF x.k = "nan" \/ y.k = "nan" THEN FNaN
    ELSE IF x.k = "inf" \/ y.k = "inf"
    THEN IF (x.k = "fin" /\ x.m = 0) \/ (y.k = "fin" /\ y.m = 0)
         THEN FNaN
         ELSE FInf(x.s * y.s)
    ELSE FRound(x.s * y.s, x.m * y.m, x.e + y.e, FALSE)

\* S * 2^e0 is the sum of the aligned significands; lost: bits of the
\* smaller operand, of sign ys, fell below 2^e0
FAddRound(S, lost, ys, e0) ==
    IF lost /\ Sgn(S) # ys
    THEN FRound(Sgn(S), 2 * Abs(S) - 1, e0 - 1, TRUE)
    ELSE FRound(Sgn(S), Abs(S), e0, lost)

\* x shifted left by sh bits, y shifted right by rs bits
FAddShift(x, y, sh, rs) ==
    IF rs > Precision
    THEN FAddRound(x.s * x.m * 2 ^ sh, TRUE, y.s, x.e - sh)
    ELSE FAddRound(x.s * x.m * 2 ^ sh + y.s * (y.m \div 2 ^ rs),
                   y.m % 2 ^ rs # 0, y.s, x.e - sh)

\* x + y for finite nonzero x, y with x.e >= y.e
FAddAligned(x, y) ==
    FAddShift(x, y, Min(x.e - y.e, Precision + 2),
              x.e - y.e - Min(x.e - y.e, Precision + 2))

FAdd(x, y) ==
    IF x.k = "nan" \/ y.k = "nan" THEN FNaN
    ELSE IF x.k = "inf"
    THEN IF y.k = "inf" /\ y.s # x.s THEN FNaN ELSE x
    ELSE IF y.k = "inf" THEN y
    ELSE IF x.m = 0 THEN y
    ELSE IF y.m = 0 THEN x
    ELSE FAddAligned(IF x.e >= y.e THEN x ELSE y,
                     IF x.e >= y.e THEN y ELSE x)

FSub(x, y) == FAdd(x, FNeg(y))

\* magnitude order of canonical finite values
FMagLt(x, y) == x.e < y.e \/ (x.e = y.e /\ x.m < y.m)

FLt(x, y) ==
    IF x.k = "nan" \/ y.k = "nan" THEN FALSE
    ELSE IF x.k = "inf" THEN x.s = -1 /\ ~(y.k = "inf" /\ y.s = -1)
    ELSE IF y.k = "inf" THEN y.s = 1
    ELSE IF x.m = 0 THEN y.m # 0 /\ y.s = 1
    ELSE IF y.m = 0 THEN x.s = -1
    ELSE IF x.s # y.s THEN x.s = -1
    ELSE IF x.s = 1 THEN FMagLt(x, y) ELSE FMagLt(y, x)

FEq(x, y) == x.k # "nan" /\ y.k # "nan" /\ x = y

\* nearest float of a rational with |n| < 2048 and d <= 64
FFromRat(r) ==
    FRound(Sgn(r[1]), (Abs(r[1]) * 2 ^ 20) \div r[2], -20,
           (Abs(r[1]) * 2 ^ 20) % r[2] # 0)

(***************************************************************************)
(* Complex<F>                                                              *)
(***************************************************************************)
Complex(re, im) == [t |-> "c", re |-> re, im |-> im]
CMul(a, b) == Complex(FSub(FMul(a.re, b.re), FMul(a.im, b.im)),
                      FAdd(FMul(a.re, b.im), FMul(a.im, b.re)))
CAdd(a, b) == Complex(FAdd(a.re, b.re), FAdd(a.im, b.im))
CPowu2(z) == CMul(z, z)
CEq(a, b) == FEq(a.re, b.re) /\ FEq(a.im, b.im)

(***************************************************************************)
(* Values of the engine's type parameter U (lib.rs:17, U: PartialEq +      *)
(* Copy): either Complex<F> or an element of a small abstract domain whose *)
(* element UNaN is, like NaN, not equal to itself.                         *)
(***************************************************************************)
U == 0 .. USize - 1
UNaN == 0
UVal(k) == [t |-> "u", v |-> k]

\* `last.unwrap() == n` (lib.rs:30), PartialEq of U
ValEq(a, b) ==
    IF a.t = "c" THEN CEq(a, b) ELSE a.v = b.v /\ a.v # UNaN

(***************************************************************************)
(* Closures passed to is_stable.                                           *)
(***************************************************************************)
\* |q| q.powu(2)                                          (lib.rs:241, 252)
SquareFn == [kind |-> "sq"]
\* |c| c.powu(2) + Complex::new(x, y)                     (lib.rs:181-187, 206)
SquarePlusFn(c) == [kind |-> "sqc", c |-> c]
\* an arbitrary pure function on the abstract domain
TableFn(tab) == [kind |-> "table", tab |-> tab]

\* |s| s.re < 999999.0                                    (lib.rs:243, 254)
ReBelowCheck(b) == [kind |-> "re_lt", b |-> b]
\* |f| f.re < F::infinity() && f.im < F::infinity()       (lib.rs:189, 211)
BelowInfinityCheck == [kind |-> "lt_inf"]
TableCheck(tab) == [kind |-> "table", tab |-> tab]

\* ApplyFn with the closure of the generators forgetting its constant
ApplyFn_NoConstant(function, v) ==
    CASE function.kind = "sq" -> CPowu2(v)
      [] function.kind = "sqc" -> CPowu2(v)
      [] function.kind = "table" -> UVal(function.tab[v.v])

ApplyFn(function, v) ==
    CASE function.kind = "sq" -> CPowu2(v)
      [] function.kind = "sqc" -> CAdd(CPowu2(v), function.c)
      [] function.kind = "table" -> UVal(function.tab[v.v])

ApplyCheck(stability_check, v) ==
    CASE stability_check.kind = "re_lt" -> FLt(v.re, stability_check.b)
      [] stability_check.kind = "lt_inf" ->
            FLt(v.re, FInf(1)) /\ FLt(v.im, FInf(1))
      [] stability_check.kind = "table" -> stability_check.tab[v.v]

(***************************************************************************)
(* is_stable (lib.rs:8-36).  The locals of the loop are n, i, last; pc is  *)
(* "loop" until a return statement is executed, ret is the returned pair,  *)
(* exit names the return statement taken and applied counts the calls of   *)
(* `function`.                                                             *)
(***************************************************************************)
Locals(initial) ==
    [n |-> initial, i |-> 0, last |-> <<>>, pc |-> "loop", ret |-> <<>>,
     exit |-> "none", applied |-> 0]

\* LoopApply with the fixed-point exit returning the incremented counter
LoopApply_CountsAll(st, n1) ==
    IF st.last # <<>> /\ ValEq(st.last[1], n1)
    THEN [st EXCEPT !.n = n1, !.applied = @ + 1, !.pc = "done",
                    !.ret = <<st.i + 1, TRUE>>, !.exit = "fixed"]
    ELSE [st EXCEPT !.n = n1, !.applied = @ + 1,
                    !.last = <<n1>>, !.i = @ + 1]

\* lib.rs:29-34, n1 = function(n)
LoopApply(st, n1) ==
    IF st.last # <<>> /\ ValEq(st.last[1], n1)
    THEN [st EXCEPT !.n = n1, !.applied = @ + 1, !.pc = "done",
                    !.ret = <<st.i, TRUE>>, !.exit = "fixed"]
    ELSE [st EXCEPT !.n = n1, !.applied = @ + 1,
                    !.last = <<n1>>, !.i = @ + 1]

\* LoopBody with the budget test two passes late
LoopBody_LateBudget(function, stability_check, max_iterations, st) ==
    IF st.pc = "done" THEN st
    ELSE IF ~ApplyCheck(stability_check, st.n)
    THEN [st EXCEPT !.pc = "done", !.ret = <<st.i, FALSE>>,
                    !.exit = "unstable"]
    ELSE IF st.i = max_iterations + 2
    THEN [st EXCEPT !.pc = "done", !.ret = <<st.i, TRUE>>,
                    !.exit = "budget"]
    ELSE LoopApply(st, ApplyFn(function, st.n))

\* LoopBody with the budget test one pass early
LoopBody_EarlyBudget(function, stability_check, max_iterations, st) ==
    IF st.pc = "done" THEN st
    ELSE IF ~ApplyCheck(stability_check, st.n)
    THEN [st EXCEPT !.pc = "done", !.ret = <<st.i, FALSE>>,
                    !.exit = "unstable"]
    ELSE IF st.i >= max_iterations - 1
    THEN [st EXCEPT !.pc = "done", !.ret = <<st.i, TRUE>>,
                    !.exit = "budget"]
    ELSE LoopApply(st, ApplyFn(function, st.n))

\* LoopBody with the budget test before the stability check
LoopBody_BudgetFirst(function, stability_check, max_iterations, st) ==
    IF st.pc = "done" THEN st
    ELSE IF st.i = max_iterations
    THEN [st EXCEPT !.pc = "done", !.ret = <<st.i, TRUE>>,
                    !.exit = "budget"]
    ELSE IF ~ApplyCheck(stability_check, st.n)
    THEN [st EXCEPT !.pc = "done", !.ret = <<st.i, FALSE>>,
                    !.exit = "unstable"]
    ELSE LoopApply(st, ApplyFn(function, st.n))

\* one pass through the body of `loop` (lib.rs:22-35)
LoopBody(function, stability_check, max_iterations, st) ==
    IF st.pc = "done" THEN st
    ELSE IF ~ApplyCheck(stability_check, st.n)
    THEN [st EXCEPT !.pc = "done", !.ret = <<st.i, FALSE>>,
                    !.exit = "unstable"]
    ELSE IF st.i = max_iterations
    THEN [st EXCEPT !.pc = "done", !.ret = <<st.i, TRUE>>,
                    !.exit = "budget"]
    ELSE LoopApply(st, ApplyFn(function, st.n))

\* k passes through the loop body
RECURSIVE RunLoop(_, _, _, _, _)
RunRest(function, stability_check, max_iterations, half, k) ==
    IF half.pc = "done" THEN half
    ELSE RunLoop(function, stability_check, max_iterations, half, k)

RunLoop(function, stability_check, max_iterations, st, k) ==
    IF k = 0 THEN st
    ELSE IF k = 1 THEN LoopBody(function, stability_check, max_iterations, st)
    ELSE RunRest(function, stability_check, max_iterations,
                 RunLoop(function, stability_check, max_iterations, st,
                         k \div 2),
                 k - (k \div 2))

\* the pair returned by is_stable(function, initial, stability_check,
\* max_iterations); <<>> if the loop has not returned after
\* max_iterations + 1 passes
is_stable(function, initial, stability_check, max_iterations) ==
    RunLoop(function, stability_check, max_iterations, Locals(initial),
            max_iterations + 1).ret

(***************************************************************************)
(* Space mapper (lib.rs:129-149, 216-230).  Vec2 is [x, y] over rationals, *)
(* IVec2 is [x, y] over integers.                                          *)
(***************************************************************************)
Vec2(x, y) == [x |-> x, y |-> y]
IVec2(x, y) == [x |-> x, y |-> y]

\* Rust's `/` and `%` on i32 truncate toward zero
TruncDiv(a, b) ==
    IF (a >= 0) = (b > 0) THEN Abs(a) \div Abs(b) ELSE -(Abs(a) \div Abs(b))
TruncRem(a, b) == a - b * TruncDiv(a, b)

\* SpaceParams::new dividing each axis by the resolution of the other axis
SpaceParams_new_SwappedDelta(lo, up, res) ==
    LET scale == Vec2(RAbs(RSub(up.x, lo.x)), RAbs(RSub(up.y, lo.y)))
        offset == Vec2(RDiv(RAdd(lo.x, up.x), RInt(2)),
                       RDiv(RAdd(lo.y, up.y), RInt(2)))
        delta == Vec2(RDiv(scale.x, RInt(res.y)), RDiv(scale.y, RInt(res.x)))
    IN  [scale |-> scale, offset |-> offset, delta |-> delta]

\* SpaceParams::new (lib.rs:137-148)
SpaceParams_new(lo, up, res) ==
    LET scale == Vec2(RAbs(RSub(up.x, lo.x)), RAbs(RSub(up.y, lo.y)))
        offset == Vec2(RDiv(RAdd(lo.x, up.x), RInt(2)),
                       RDiv(RAdd(lo.y, up.y), RInt(2)))
        delta == Vec2(RDiv(scale.x, RInt(res.x)), RDiv(scale.y, RInt(res.y)))
    IN  [scale |-> scale, offset |-> offset, delta |-> delta]

\* from_screen_point_to_cartesian without the inversion of the vertical axis
from_screen_point_to_cartesian_Upright(index, res, params) ==
    LET screen_x == TruncRem(index, res.x)
        screen_y == TruncDiv(index, res.x)
        cx == screen_x - TruncDiv(res.x, 2)
        cy == screen_y - TruncDiv(res.y, 2)
    IN  Vec2(RAdd(RMul(RInt(cx), params.delta.x), params.offset.x),
             RAdd(RMul(RInt(cy), params.delta.y), params.offset.y))

\* from_screen_point_to_cartesian (lib.rs:216-230)
from_screen_point_to_cartesian(index, res, params) ==
    LET screen_x == TruncRem(index, res.x)
        screen_y == TruncDiv(index, res.x)
        cx == screen_x - TruncDiv(res.x, 2)
        cy == -screen_y + TruncDiv(res.y, 2)
    IN  Vec2(RAdd(RMul(RInt(cx), params.delta.x), params.offset.x),
             RAdd(RMul(RInt(cy), params.delta.y), params.offset.y))

(***************************************************************************)
(* Per-pixel generators (lib.rs:174-214).                                  *)
(***************************************************************************)
MaxIterations == 1000      \* the literal passed to is_stable

\* the arguments from_screen_pixel_mandelbrot passes to is_stable
MandelbrotCall(index, res, params) ==
    LET cart == from_screen_point_to_cartesian(index, res, params)
    IN  [function |-> SquarePlusFn(Complex(FFromRat(cart.x),
                                           FFromRat(cart.y))),
         initial |-> Complex(FZero, FZero),
         stability_check |-> BelowInfinityCheck,
         max_iterations |-> MaxIterations]

\* the arguments from_screen_pixel_julia passes to is_stable
JuliaCall(index, res, params, c_) ==
    LET cart == from_screen_point_to_cartesian(index, res, params)
    IN  [function |-> SquarePlusFn(Complex(FFromRat(c_[1]), FFromRat(c_[2]))),
         initial |-> Complex(FFromRat(cart.x), FFromRat(cart.y)),
         stability_check |-> BelowInfinityCheck,
         max_iterations |-> MaxIterations]

is_stable_call(a) ==
    is_stable(a.function, a.initial, a.stability_check, a.max_iterations)

from_screen_pixel_mandelbrot(index, res, params) ==
    is_stable_call(MandelbrotCall(index, res, params))

from_screen_pixel_julia(index, res, params, c_) ==
    is_stable_call(JuliaCall(index, res, params, c_))

(***************************************************************************)
(* State.                                                                  *)
(*   engine:  the arguments and locals of one call of is_stable            *)
(*   raster:  the configuration of one calc_screen_space call, the         *)
(*            SpaceParams, and the outputs of the sequential and of the    *)
(*            parallel build of the generators                             *)
(***************************************************************************)
VARIABLES function, initial, stability_check, max_iterations,
          n, i, last, pc, ret, exit, applied,
          generator, lower, upper, resolution, julia_c,
          sp, cart, seq_out, par_slots, order, raw, par_out, phase

engineVars == <<function, initial, stability_check, max_iterations,
                n, i, last, pc, ret, exit, applied>>
configVars == <<generator, lower, upper, resolution, julia_c>>
rasterVars == <<sp, cart, seq_out, par_slots, order, raw, par_out, phase>>
vars == <<engineVars, configVars, rasterVars>>

EngineIdle ==
    /\ function = <<>> /\ initial = <<>> /\ stability_check = <<>>
    /\ max_iterations = 0 /\ n = <<>> /\ i = 0 /\ last = <<>>
    /\ pc = "idle" /\ ret = <<>> /\ exit = "none" /\ applied = 0

RasterIdle ==
    /\ generator = "none" /\ lower = <<>> /\ upper = <<>>
    /\ resolution = <<>> /\ julia_c = <<>>
    /\ sp = <<>> /\ cart = <<>> /\ seq_out = <<>> /\ par_slots = <<>>
    /\ order = <<>> /\ raw = <<>> /\ par_out = <<>> /\ phase = "idle"

(***************************************************************************)
(* The iteration engine, one loop pass per step.                           *)
(***************************************************************************)
\* calls with every function and predicate on the abstract domain
AbstractCalls ==
    { [function |-> TableFn(f), initial |-> UVal(x0),
       stability_check |-> TableCheck(g), max_iterations |-> mx] :
         f \in [U -> U], x0 \in U, g \in [U -> BOOLEAN], mx \in 0 .. MaxBudget }

\* tests::unstable_positive_integer, tests::stable_positive_float
\* (lib.rs:238-258)
TestBudget == 50000
TestBound == 999999
TestCalls ==
    { [function |-> SquareFn,
       initial |-> Complex(FFromRat(x0), FZero),
       stability_check |-> ReBelowCheck(FFromInt(TestBound)),
       max_iterations |-> TestBudget] : x0 \in {<<2, 1>>, <<1, 2>>} }

\* 1x1 rasters whose only pixel has the coordinate (x, 0)
PixelCentres == {2, 0, -1}
PixelCalls ==
    { MandelbrotCall(0, IVec2(1, 1),
                     SpaceParams_new(Vec2(RInt(x - 1), RInt(-1)),
                                     Vec2(RInt(x + 1), RInt(1)),
                                     IVec2(1, 1))) : x \in PixelCentres }
    \cup
    { JuliaCall(0, IVec2(1, 1),
                SpaceParams_new(Vec2(RInt(x - 1), RInt(-1)),
                                Vec2(RInt(x + 1), RInt(1)),
                                IVec2(1, 1)), <<RInt(0), RInt(0)>>) :
          x \in PixelCentres }

EngineCalls == AbstractCalls \cup TestCalls \cup PixelCalls

EngineInit ==
    /\ \E call \in EngineCalls :
          /\ function = call.function
          /\ initial = call.initial
          /\ stability_check = call.stability_check
          /\ max_iterations = call.max_iterations
          /\ n = call.initial                      \* lib.rs:19
    /\ i = 0                                       \* lib.rs:20
    /\ last = <<>>                                 \* lib.rs:21
    /\ pc = "loop" /\ ret = <<>> /\ exit = "none" /\ applied = 0
    /\ RasterIdle

EngineLocals ==
    [n |-> n, i |-> i, last |-> last, pc |-> pc, ret |-> ret,
     exit |-> exit, applied |-> applied]

\* the locals after a loop pass that ended in the given way
LoopPassTo(st, how) ==
    /\ st.exit = how
    /\ n' = st.n /\ i' = st.i /\ last' = st.last /\ pc' = st.pc
    /\ ret' = st.ret /\ exit' = st.exit /\ applied' = st.applied

\* `return (i, false)`, the stability check failed (lib.rs:23-25)
UnstableExit ==
    /\ pc = "loop"
    /\ LoopPassTo(LoopBody(function, stability_check, max_iterations,
                           EngineLocals), "unstable")
    /\ UNCHANGED <<function, initial, stability_check, max_iterations>>
    /\ UNCHANGED <<configVars, rasterVars>>

\* `return (i, true)`, the budget is used up (lib.rs:26-28)
BudgetExit ==
    /\ pc = "loop"
    /\ LoopPassTo(LoopBody(function, stability_check, max_iterations,
                           EngineLocals), "budget")
    /\ UNCHANGED <<function, initial, stability_check, max_iterations>>
    /\ UNCHANGED <<configVars, rasterVars>>

\* `return (i, true)`, the value repeated (lib.rs:29-32)
FixedPointExit ==
    /\ pc = "loop"
    /\ LoopPassTo(LoopBody(function, stability_check, max_iterations,
                           EngineLocals), "fixed")
    /\ UNCHANGED <<function, initial, stability_check, max_iterations>>
    /\ UNCHANGED <<configVars, rasterVars>>

\* the pass falls through to `i += 1` (lib.rs:29-34)
Advance ==
    /\ pc = "loop"
    /\ LoopPassTo(LoopBody(function, stability_check, max_iterations,
                           EngineLocals), "none")
    /\ UNCHANGED <<function, initial, stability_check, max_iterations>>
    /\ UNCHANGED <<configVars, rasterVars>>

EngineNext == UnstableExit \/ BudgetExit \/ FixedPointExit \/ Advance

SpecEngine == EngineInit /\ [][EngineNext]_vars

(***************************************************************************)
(* The space mapper on its own: SpaceParams::new, then                     *)
(* from_screen_point_to_cartesian for the pixel indices in order, as in    *)
(* the map of lib.rs:156-158.                                              *)
(***************************************************************************)
MaxRes == 3                \* largest width and height of a raster
MapperCoords == {<<-2, 1>>, <<-1, 1>>, <<1, 2>>, <<1, 1>>, <<2, 1>>}
MapperVecs == { Vec2(x, y) : x \in MapperCoords, y \in MapperCoords }
Resolutions == { IVec2(w, h) : w \in 1 .. MaxRes, h \in 1 .. MaxRes }

NumPixels == resolution.x * resolution.y       \* lib.rs:77, 102

MapperInit ==
    /\ EngineIdle
    /\ generator = "none" /\ julia_c = <<>>
    /\ lower \in MapperVecs /\ upper \in MapperVecs
    /\ resolution \in Resolutions
    /\ sp = <<>> /\ cart = <<>> /\ phase = "params"
    /\ seq_out = <<>> /\ par_slots = <<>> /\ order = <<>>
    /\ raw = <<>> /\ par_out = <<>>

MapperNew ==
    /\ phase = "params"
    /\ sp' = SpaceParams_new(lower, upper, resolution)
    /\ phase' = "pixels"
    /\ UNCHANGED <<engineVars, configVars, cart, seq_out, par_slots, order,
                   raw, par_out>>

MapperPixel ==
    /\ phase = "pixels"
    /\ Len(cart) < NumPixels
    /\ cart' = Append(cart,
                      from_screen_point_to_cartesian(Len(cart), resolution, sp))
    /\ UNCHANGED <<engineVars, configVars, sp, seq_out, par_slots, order,
                   raw, par_out, phase>>

MapperNext == MapperNew \/ MapperPixel

SpecMapper == MapperInit /\ [][MapperNext]_vars

(***************************************************************************)
(* The generators: calc_screen_space of the sequential build               *)
(* (lib.rs:38-56, 108-127) and of the parallel build (lib.rs:58-106) on    *)
(* the same rectangle lower..upper.  The sequential iterator is drained    *)
(* first, then the parallel build runs; its workers take the pixel indices *)
(* in any order.                                                           *)
(***************************************************************************)
BatchStableCount == 500    \* the literal of lib.rs:165

\* SpaceParams::calc_space_params of the sequential build: per axis
\* scale = upper - lower, offset = (lower + upper) / 2, delta = scale /
\* resolution
calc_space_params(x_bounds, y_bounds, res) ==
    LET scale == Vec2(RSub(x_bounds[2], x_bounds[1]),
                      RSub(y_bounds[2], y_bounds[1]))
        offset == Vec2(RDiv(RAdd(x_bounds[1], x_bounds[2]), RInt(2)),
                       RDiv(RAdd(y_bounds[1], y_bounds[2]), RInt(2)))
        delta == Vec2(RDiv(scale.x, RInt(res.x)), RDiv(scale.y, RInt(res.y)))
    IN  [scale |-> scale, offset |-> offset, delta |-> delta]

\* the results wgpu::execute_gpu may return for a batch of coordinates: one
\* raw count per coordinate
RawCounts == {1, BatchStableCount, MaxIterations}
execute_gpu(coordinates) == [1 .. Len(coordinates) -> RawCounts]

\* the map of lib.rs:162-171 over the raw counts
ReinterpretCounts(results) ==
    [k \in 1 .. Len(results) |->
        IF results[k] = BatchStableCount THEN <<results[k], TRUE>>
        ELSE <<results[k], FALSE>>]

\* collect() of an indexed parallel iterator: the item of index k is written
\* to position k of the output, whenever its worker finishes
PlaceByArrival(slots, k, v) ==
    LET free == { j \in DOMAIN slots : slots[j] = <<>> }
    IN  [slots EXCEPT ![CHOOSE j \in free : \A m \in free : j <= m] = <<v>>]

Place(slots, k, v) == [slots EXCEPT ![k] = <<v>>]

Collected(slots) == [k \in 1 .. NumPixels |-> slots[k - 1][1]]
AllPlaced(slots) == \A k \in DOMAIN slots : slots[k] # <<>>

\* the SpaceParams of the three calc_screen_space bodies
SeqParams ==                                     \* lib.rs:51, 122
    calc_space_params(<<lower.x, upper.x>>, <<lower.y, upper.y>>, resolution)
ParMandelbrotParams ==                           \* lib.rs:69
    SpaceParams_new(lower, upper, resolution)
\* julia::calc_screen_space takes x_bounds and y_bounds and passes them on
\* as the lower and upper corner
ParJuliaParams ==                                \* lib.rs:92-100
    SpaceParams_new(Vec2(lower.x, upper.x), Vec2(lower.y, upper.y),
                    resolution)

GenRasters ==
    { [lower |-> Vec2(RInt(-2), RInt(-2)), upper |-> Vec2(RInt(2), RInt(2)),
       resolution |-> IVec2(2, 2)],
      [lower |-> Vec2(RInt(-2), RInt(-1)), upper |-> Vec2(RInt(1), RInt(1)),
       resolution |-> IVec2(3, 1)],
      [lower |-> Vec2(RInt(-1), RInt(0)), upper |-> Vec2(RInt(1), RInt(2)),
       resolution |-> IVec2(1, 2)],
      [lower |-> Vec2(RInt(1), RInt(1)), upper |-> Vec2(RInt(-2), RInt(-1)),
       resolution |-> IVec2(2, 1)] }
JuliaConstants == { <<RInt(0), RInt(0)>>, <<RInt(-1), RInt(0)>> }

GenInit ==
    /\ EngineIdle
    /\ \E r \in GenRasters :
          /\ lower = r.lower /\ upper = r.upper /\ resolution = r.resolution
          /\ par_slots = [k \in 0 .. r.resolution.x * r.resolution.y - 1
                            |-> <<>>]
    /\ \/ generator = "mandelbrot" /\ julia_c = <<>>
       \/ generator = "julia" /\ julia_c \in JuliaConstants
    /\ sp = <<>> /\ cart = <<>> /\ seq_out = <<>> /\ order = <<>>
    /\ raw = <<>> /\ par_out = <<>> /\ phase = "seq"

\* the sequential iterator yields the next item (lib.rs:53-54)
SeqMandelbrotNext ==
    /\ phase = "seq" /\ generator = "mandelbrot"
    /\ Len(seq_out) < NumPixels
    /\ seq_out' = Append(seq_out,
          from_screen_pixel_mandelbrot(Len(seq_out), resolution, SeqParams))
    /\ UNCHANGED <<engineVars, configVars, sp, cart, par_slots, order, raw,
                   par_out, phase>>

\* the sequential iterator yields the next item (lib.rs:124-125)
SeqJuliaNext ==
    /\ phase = "seq" /\ generator = "julia"
    /\ Len(seq_out) < NumPixels
    /\ seq_out' = Append(seq_out,
          from_screen_pixel_julia(Len(seq_out), resolution, SeqParams,
                                  julia_c))
    /\ UNCHANGED <<engineVars, configVars, sp, cart, par_slots, order, raw,
                   par_out, phase>>

\* the sequential iterator is exhausted; the parallel build is called
SeqEnd ==
    /\ phase = "seq"
    /\ Len(seq_out) = NumPixels
    /\ phase' = "par"
    /\ sp' = (IF generator = "julia" THEN ParJuliaParams
              ELSE ParMandelbrotParams)
    /\ UNCHANGED <<engineVars, configVars, cart, seq_out, par_slots, order,
                   raw, par_out>>

\* a worker maps pixel index k (lib.rs:102-104)
ParJuliaPixel(k) ==
    /\ phase = "par" /\ generator = "julia"
    /\ par_slots[k] = <<>>
    /\ par_slots' = Place(par_slots, k,
                          from_screen_pixel_julia(k, resolution, sp, julia_c))
    /\ order' = Append(order, k)
    /\ UNCHANGED <<engineVars, configVars, sp, cart, seq_out, raw, par_out,
                   phase>>

\* the caller collects the parallel iterator
ParJuliaCollect ==
    /\ phase = "par" /\ generator = "julia"
    /\ AllPlaced(par_slots)
    /\ par_out' = Collected(par_slots)
    /\ phase' = "done"
    /\ UNCHANGED <<engineVars, configVars, sp, cart, seq_out, par_slots,
                   order, raw>>

\* a worker maps pixel index k to its coordinate (lib.rs:156-157)
OffloadPixel(k) ==
    /\ phase = "par" /\ generator = "mandelbrot"
    /\ par_slots[k] = <<>>
    /\ par_slots' = Place(par_slots, k,
                          from_screen_point_to_cartesian(k, resolution, sp))
    /\ order' = Append(order, k)
    /\ UNCHANGED <<engineVars, configVars, sp, cart, seq_out, raw, par_out,
                   phase>>

\* `let cart: Vec<_> = ... .collect()` (lib.rs:156-158)
OffloadCollect ==
    /\ phase = "par" /\ generator = "mandelbrot"
    /\ AllPlaced(par_slots)
    /\ cart' = Collected(par_slots)
    /\ phase' = "gpu"
    /\ UNCHANGED <<engineVars, configVars, sp, seq_out, par_slots, order,
                   raw, par_out>>

\* pollster::block_on(wgpu::execute_gpu(&cart)).unwrap() (lib.rs:160)
OffloadExecute ==
    /\ phase = "gpu"
    /\ raw' \in execute_gpu(cart)
    /\ phase' = "raw"
    /\ UNCHANGED <<engineVars, configVars, sp, cart, seq_out, par_slots,
                   order, par_out>>

\* lib.rs:162-171
OffloadReinterpret ==
    /\ phase = "raw"
    /\ par_out' = ReinterpretCounts(raw)
    /\ phase' = "done"
    /\ UNCHANGED <<engineVars, configVars, sp, cart, seq_out, par_slots,
                   order, raw>>

GenNext ==
    \/ SeqMandelbrotNext \/ SeqJuliaNext \/ SeqEnd
    \/ \E k \in DOMAIN par_slots : ParJuliaPixel(k)
    \/ ParJuliaCollect
    \/ \E k \in DOMAIN par_slots : OffloadPixel(k)
    \/ OffloadCollect \/ OffloadExecute \/ OffloadReinterpret

SpecGen == GenInit /\ [][GenNext]_vars

(***************************************************************************)
(* Properties of the iteration engine.                                     *)
(***************************************************************************)
\* the orbit <<x_0, ..., x_k>> of x under the transition function
RECURSIVE OrbitFrom(_, _, _)
OrbitJoin(fn, left, k) == left \o Tail(OrbitFrom(fn, left[Len(left)], k))

OrbitFrom(fn, x, k) ==
    IF k = 0 THEN <<x>>
    ELSE IF k = 1 THEN <<x, ApplyFn(fn, x)>>
    ELSE OrbitJoin(fn, OrbitFrom(fn, x, k \div 2), k - (k \div 2))

\* C1: a call applies the transition function at most max_iterations + 1
\* times, returns a count of at most max_iterations, and terminates: every
\* loop pass either returns or increments i, and i never exceeds
\* max_iterations while the loop runs.
C1_BoundedAndTerminates ==
    /\ [](applied <= max_iterations + 1)
    /\ [](pc = "done" => ret[1] <= max_iterations)
    /\ [](pc = "loop" => i <= max_iterations)
    /\ [][pc' = "done" \/ i' = i + 1]_vars

C1_Witness == pc = "done" /\ exit = "budget" /\ max_iterations > 0

\* C2 as stated: on every exit path the returned count is the number of
\* applications of the transition function.
C2_CountIsApplications == pc = "done" => ret[1] = applied

\* C2 amended: the count is the number of applications on the unstable and
\* the budget exit, and one less than that on the fixed-point exit.
C2_CountPerExit ==
    pc = "done" =>
       /\ exit \in {"unstable", "budget"} => ret[1] = applied
       /\ exit = "fixed" => ret[1] + 1 = applied

C2_Witness == pc = "done" /\ exit = "fixed" /\ ret[1] >= 1

\* the steps k <= max_iterations at which the predicate rejects x_k, and the
\* steps j at which the fixed-point comparison of pass j succeeds
RejectedSteps(orb) ==
    { k \in 0 .. max_iterations : ~ApplyCheck(stability_check, orb[k + 1]) }
FixedSteps(orb) ==
    { j \in 1 .. max_iterations - 1 : ValEq(orb[j + 1], orb[j + 2]) }
\* the rejections that no fixed-point exit precedes
Escapes(rej, fix) == { k \in rej : \A j \in fix : j >= k }

OrbitVerdict(esc) ==
    /\ ret[2] = (esc = {})
    /\ ret[2] = FALSE => ret[1] \in esc /\ \A k \in esc : ret[1] <= k

IsUnstableTest ==
    /\ function = SquareFn /\ initial = Complex(FFromInt(2), FZero)
    /\ stability_check = ReBelowCheck(FFromInt(TestBound))
    /\ max_iterations = TestBudget
IsStableTest ==
    /\ function = SquareFn /\ initial = Complex(FFromRat(<<1, 2>>), FZero)
    /\ stability_check = ReBelowCheck(FFromInt(TestBound))
    /\ max_iterations = TestBudget

\* C3: the engine returns false exactly when the predicate rejects some x_k
\* with k <= max_iterations that no fixed-point exit precedes, and then the
\* count is the least such k; z -> z^2 from 2 is unstable and z -> z^2 from
\* 0.5 is stable through a fixed point.
C3_OrbitCharacterisation ==
    pc = "done" =>
       /\ OrbitVerdict(Escapes(
             RejectedSteps(OrbitFrom(function, initial, max_iterations)),
             FixedSteps(OrbitFrom(function, initial, max_iterations))))
       /\ IsUnstableTest => ret[2] = FALSE
       /\ IsStableTest => ret[2] = TRUE /\ exit = "fixed"

C3_Witness == pc = "done" /\ IsStableTest /\ ret[2] = TRUE

\* C4: for a result (count, true), count = max_iterations exactly when the
\* exit was the budget exit, and a fixed-point exit has count <
\* max_iterations.
C4_CappedOrConverged ==
    (pc = "done" /\ ret[2] = TRUE) =>
       /\ (ret[1] = max_iterations) <=> (exit = "budget")
       /\ exit = "fixed" => ret[1] < max_iterations

C4_Witness ==
    pc = "done" /\ exit = "fixed" /\ ret[1] + 1 = max_iterations

IsMandelbrotAtTwo ==
    /\ function = SquarePlusFn(Complex(FFromInt(2), FZero))
    /\ initial = Complex(FZero, FZero)
    /\ stability_check = BelowInfinityCheck
    /\ max_iterations = MaxIterations

\* C8 as stated: the Mandelbrot pixel at c = 2 + 0i returns (1, false).
C8_EscapesOnIterationOne ==
    (pc = "done" /\ IsMandelbrotAtTwo) => ret = <<1, FALSE>>

\* C8 amended: the Mandelbrot pixel at c = 2 + 0i returns (11, false): the
\* orbit 0, 2, 6, 38, 1446, ... first fails `re < infinity` at its 11th
\* iterate, which overflows binary64.
C8_EscapesOnOverflow ==
    (pc = "done" /\ IsMandelbrotAtTwo) => ret = <<11, FALSE>>

C8_Witness == pc = "done" /\ IsMandelbrotAtTwo /\ exit = "unstable"

(***************************************************************************)
(* Properties of the space mapper.                                         *)
(***************************************************************************)
RHalf(a) == RDiv(a, RInt(2))
RWithin(a, b, d) == RLe(RAbs(RSub(a, b)), d)

\* C9 as stated: per axis scale = upper - lower, offset = (lower + upper) / 2
\* and delta = scale / resolution.
C9_SignedScale ==
    sp # <<>> =>
       /\ sp.scale.x = RSub(upper.x, lower.x)
       /\ sp.scale.y = RSub(upper.y, lower.y)
       /\ RMul(RInt(2), sp.offset.x) = RAdd(lower.x, upper.x)
       /\ RMul(RInt(2), sp.offset.y) = RAdd(lower.y, upper.y)
       /\ RMul(sp.delta.x, RInt(resolution.x)) = sp.scale.x
       /\ RMul(sp.delta.y, RInt(resolution.y)) = sp.scale.y

\* C9 amended: per axis scale = |upper - lower|, offset = (lower + upper) / 2
\* and delta = scale / resolution.
C9_AbsoluteScale ==
    sp # <<>> =>
       /\ sp.scale.x = (IF RLe(lower.x, upper.x) THEN RSub(upper.x, lower.x)
                        ELSE RSub(lower.x, upper.x))
       /\ sp.scale.y = (IF RLe(lower.y, upper.y) THEN RSub(upper.y, lower.y)
                        ELSE RSub(lower.y, upper.y))
       /\ RMul(RInt(2), sp.offset.x) = RAdd(lower.x, upper.x)
       /\ RMul(RInt(2), sp.offset.y) = RAdd(lower.y, upper.y)
       /\ RMul(sp.delta.x, RInt(resolution.x)) = sp.scale.x
       /\ RMul(sp.delta.y, RInt(resolution.y)) = sp.scale.y

C9_Witness ==
    sp # <<>> /\ RLt(upper.x, lower.x) /\ RLt(lower.y, upper.y)
              /\ resolution.x # resolution.y

\* every pixel of a raster with lower < upper on both axes is mapped
MappedProperRaster ==
    /\ sp # <<>> /\ cart # <<>> /\ Len(cart) = NumPixels
    /\ RLt(lower.x, upper.x) /\ RLt(lower.y, upper.y)

\* the last pixel lies within one pixel of the corner (upper.x, lower.y)
LastPixelNearCorner ==
    /\ RWithin(cart[NumPixels].x, upper.x, sp.delta.x)
    /\ RWithin(cart[NumPixels].y, lower.y, sp.delta.y)

\* C10 as stated: pixel 0 maps to (lower.x + delta.x / 2, upper.y -
\* delta.y / 2) and pixel W*H-1 to within one pixel of (upper.x, lower.y).
C10_HalfPixelInset ==
    MappedProperRaster =>
       /\ cart[1].x = RAdd(lower.x, RHalf(sp.delta.x))
       /\ cart[1].y = RSub(upper.y, RHalf(sp.delta.y))
       /\ LastPixelNearCorner

\* C10 amended: pixel 0 maps to x = lower.x + delta.x / 2 when W is odd and
\* to x = lower.x when W is even, to y = upper.y - delta.y / 2 when H is odd
\* and to y = upper.y when H is even; pixel W*H-1 maps to within one pixel
\* of (upper.x, lower.y).
C10_InsetByParity ==
    MappedProperRaster =>
       /\ cart[1].x = (IF resolution.x % 2 = 1
                       THEN RAdd(lower.x, RHalf(sp.delta.x)) ELSE lower.x)
       /\ cart[1].y = (IF resolution.y % 2 = 1
                       THEN RSub(upper.y, RHalf(sp.delta.y)) ELSE upper.y)
       /\ LastPixelNearCorner

C10_Witness ==
    MappedProperRaster /\ resolution.x = 2 /\ resolution.y = 3

(***************************************************************************)
(* Properties of the generators.                                           *)
(***************************************************************************)
\* C5 as stated: the batch offload path turns each raw count r into
\* (r, r = 1000), 1000 being the cap of the per-pixel generators.
C5_StableAtEngineCap ==
    (phase = "done" /\ generator = "mandelbrot") =>
       \A k \in 1 .. NumPixels :
          par_out[k] = <<raw[k], raw[k] = MaxIterations>>

\* C6 as stated: for both generators the output of the parallel build is
\* element for element the output of the sequential build.
C6_ParallelEqualsSequential == phase = "done" => par_out = seq_out

====
